---- MODULE Spec2Model ----
(***************************************************************************)
(* The Wordle engine of src/src/lib.rs: the scoring function               *)
(* Correctness::compute and the round loop Wordle::play driving a Guesser. *)
(*                                                                         *)
(* Letters are the integers 1..NumLetters; a word is a tuple of letters.   *)
(* compute only compares letters for equality (lib.rs:57, 64), so the      *)
(* outcome is invariant under renaming of letters.                         *)
(***************************************************************************)
EXTENDS Integers, Sequences, FiniteSets

VARIABLES
    dictionary,  \* Wordle.dictionary                        (lib.rs:9)
    pc,          \* where play is: "idle", "running", "returned", "panicked"
    answer,      \* play's argument `answer`                 (lib.rs:19)
    i,           \* the loop variable of play                (lib.rs:22)
    history,     \* play's local Vec<Guess>                  (lib.rs:21)
    guesses,     \* every value guesser.guess has returned, in call order
    passed,      \* the &history argument of the latest guesser.guess call
    switches,    \* how many times the guesser has changed its word
    result,      \* play's return value
    cAnswer,     \* compute's argument `answer`              (lib.rs:50)
    cGuess,      \* compute's argument `guess`               (lib.rs:50)
    cMask        \* compute's return value, <<>> before the call returns

vars == <<dictionary, pc, answer, i, history, guesses, passed, switches,
          result, cAnswer, cGuess, cMask>>

playVars == <<dictionary, pc, answer, i, history, guesses, passed, switches, result>>
computeVars == <<cAnswer, cGuess, cMask>>

-----------------------------------------------------------------------------
(* Program constants and bounds *)

MAX_GUESSES == 32

WordLen == 5

NumLetters == 4

MaxSwitches == 1

Letters == 1..NumLetters
Positions == 1..WordLen
Words == [Positions -> Letters]

-----------------------------------------------------------------------------
(* enum Correctness *)

Correct == "Correct"
Misplaced == "Misplaced"
Wrong == "Wrong"
Correctness == {Correct, Misplaced, Wrong}

\* What compute yields when one of its assert_eq! fails.
PanicMask == <<"panic">>

-----------------------------------------------------------------------------
(* Correctness::compute *)

\* The condition of the inner loop: answer position j holds the guessed
\* letter g, is not an exact match itself, and is not used yet.
AvailableIgnoringUsed(answer_, guess_, used, g, j) ==
    /\ g = answer_[j]
    /\ answer_[j] # guess_[j]

AvailableIncludingExact(answer_, guess_, used, g, j) ==
    /\ g = answer_[j]
    /\ ~used[j]

Available(answer_, guess_, used, g, j) ==
    /\ g = answer_[j]
    /\ answer_[j] # guess_[j]
    /\ ~used[j]

\* The inner loop: the first available answer position at or after j, 0 when
\* the loop ends without a break.
RECURSIVE FindUnused(_, _, _, _, _)
FindUnused(answer_, guess_, used, g, j) ==
    IF j > WordLen THEN 0
    ELSE IF Available(answer_, guess_, used, g, j) THEN j
    ELSE FindUnused(answer_, guess_, used, g, j + 1)

\* The state of compute before its outer loop.
ComputeInit ==
    [c |-> [p \in Positions |-> Wrong], used |-> [p \in Positions |-> FALSE]]

\* One iteration of the outer loop, at guess position n.
ComputeStepNoCorrect(answer_, guess_, st, n) ==
    IF answer_[n] = guess_[n]
    THEN [c |-> st.c, used |-> [st.used EXCEPT ![n] = TRUE]]
    ELSE LET j == FindUnused(answer_, guess_, st.used, guess_[n], 1)
         IN  IF j = 0
             THEN st
             ELSE [c |-> [st.c EXCEPT ![n] = Misplaced],
                   used |-> [st.used EXCEPT ![j] = TRUE]]

ComputeStepNoUse(answer_, guess_, st, n) ==
    IF answer_[n] = guess_[n]
    THEN [c |-> [st.c EXCEPT ![n] = Correct], used |-> [st.used EXCEPT ![n] = TRUE]]
    ELSE LET j == FindUnused(answer_, guess_, st.used, guess_[n], 1)
         IN  IF j = 0
             THEN st
             ELSE [c |-> [st.c EXCEPT ![n] = Misplaced], used |-> st.used]

ComputeStep(answer_, guess_, st, n) ==
    IF answer_[n] = guess_[n]
    THEN [c |-> [st.c EXCEPT ![n] = Correct], used |-> [st.used EXCEPT ![n] = TRUE]]
    ELSE LET j == FindUnused(answer_, guess_, st.used, guess_[n], 1)
         IN  IF j = 0
             THEN st
             ELSE [c |-> [st.c EXCEPT ![n] = Misplaced],
                   used |-> [st.used EXCEPT ![j] = TRUE]]

\* The outer loop from position n through position last.
RECURSIVE ComputeLoop(_, _, _, _, _)
ComputeLoop(answer_, guess_, st, n, last) ==
    IF n > last THEN st
    ELSE ComputeLoop(answer_, guess_, ComputeStep(answer_, guess_, st, n), n + 1, last)

compute(answer_, guess_) ==
    IF Len(answer_) # WordLen \/ Len(guess_) # WordLen
    THEN PanicMask
    ELSE ComputeLoop(answer_, guess_, ComputeInit, 1, WordLen).c

-----------------------------------------------------------------------------
(* Calling compute on its own *)

\* Letters appear in the answer in order of first occurrence: one
\* representative of every answer up to renaming of letters.
RECURSIVE MaxLetter(_, _)
MaxLetter(w, n) == IF n = 0 THEN 0
                   ELSE IF w[n] > MaxLetter(w, n - 1) THEN w[n] ELSE MaxLetter(w, n - 1)

FirstOccurrenceOrder(w) == \A p \in Positions : w[p] <= MaxLetter(w, p - 1) + 1

TheDictionary == { <<1, 1, 2, 2, 2>>, <<3, 1, 1, 3, 3>>, <<3, 3, 1, 1, 3>> }

NotReturned == [tag |-> "NotReturned", val |-> 0]

PlayIdle ==
    /\ dictionary = TheDictionary
    /\ pc = "idle"
    /\ answer = <<>>
    /\ i = 0
    /\ history = <<>>
    /\ guesses = <<>>
    /\ passed = <<>>
    /\ switches = 0
    /\ result = NotReturned

InitCompute ==
    /\ PlayIdle
    /\ cAnswer \in {w \in Words : FirstOccurrenceOrder(w)}
    /\ cGuess \in Words
    /\ cMask = <<>>

ComputeCall ==
    /\ cMask = <<>>
    /\ cMask' = compute(cAnswer, cGuess)
    /\ UNCHANGED <<cAnswer, cGuess>>
    /\ UNCHANGED playVars

NextCompute == ComputeCall

SpecCompute == InitCompute /\ [][NextCompute]_vars

ComputeReturned == cMask # <<>>

-----------------------------------------------------------------------------
(* Wordle::play *)

\* The answers play is called with: one in the dictionary, one not in it.
Answers == { <<1, 1, 2, 2, 2>>, <<1, 3, 3, 1, 3>> }

\* The words a guesser may return: the dictionary, the answers, and a word
\* that is neither.
GuessPool == TheDictionary \cup Answers \cup { <<1, 1, 1, 2, 2>> }

None == [tag |-> "None", val |-> 0]

\* Some(n), the value of `return Some(i)`.
SolvedResultZeroBased(n) == [tag |-> "Some", val |-> n - 1]

SolvedResult(n) == [tag |-> "Some", val |-> n]

\* The upper end of the range 1..=MAX_GUESSES: n is the last value of i.
LastRoundExclusive(n) == n = MAX_GUESSES - 1

LastRoundOneMore(n) == n = MAX_GUESSES + 1

LastRound(n) == n = MAX_GUESSES

\* history.push(rec)
pushFront(h, rec) == <<rec>> \o h

push(h, rec) == Append(h, rec)

\* What an iteration of the loop does with the guess w: the equality test,
\* then the membership assertion, then the length assertions of compute.
OutcomeMembershipFirst(w, ans, dict) ==
    IF w \notin dict THEN "Panic"
    ELSE IF w = ans THEN "Solved"
    ELSE IF compute(ans, w) = PanicMask THEN "Panic"
    ELSE "Scored"

OutcomeNoAssert(w, ans, dict) ==
    IF w = ans THEN "Solved"
    ELSE IF compute(ans, w) = PanicMask THEN "Panic"
    ELSE "Scored"

Outcome(w, ans, dict) ==
    IF w = ans THEN "Solved"
    ELSE IF w \notin dict THEN "Panic"
    ELSE IF compute(ans, w) = PanicMask THEN "Panic"
    ELSE "Scored"

Last(q) == q[Len(q)]

\* The guesser is any Guesser that changes its word at most MaxSwitches times.
GuesserReturns(w) ==
    /\ w \in GuessPool
    /\ IF guesses = <<>>
       THEN TRUE
       ELSE w = Last(guesses) \/ switches < MaxSwitches

\* guesser.guess(&history) returning w.
GuessCall(w) ==
    /\ pc = "running"
    /\ GuesserReturns(w)
    /\ guesses' = Append(guesses, w)
    /\ passed' = history
    /\ switches' = IF guesses # <<>> /\ w # Last(guesses) THEN switches + 1 ELSE switches

Init ==
    /\ PlayIdle
    /\ cAnswer = <<>>
    /\ cGuess = <<>>
    /\ cMask = <<>>

\* play is called with answer a: the history starts empty, the loop at 1.
Play(a) ==
    /\ pc = "idle"
    /\ pc' = "running"
    /\ answer' = a
    /\ i' = 1
    /\ history' = <<>>
    /\ UNCHANGED <<dictionary, guesses, passed, switches, result>>
    /\ UNCHANGED computeVars

\* An iteration whose guess is the answer: return Some(i).
Solve(w) ==
    /\ GuessCall(w)
    /\ Outcome(w, answer, dictionary) = "Solved"
    /\ pc' = "returned"
    /\ result' = SolvedResult(i)
    /\ UNCHANGED <<dictionary, answer, i, history>>
    /\ UNCHANGED computeVars

\* An iteration whose guess fails an assertion: play unwinds.
Panic(w) ==
    /\ GuessCall(w)
    /\ Outcome(w, answer, dictionary) = "Panic"
    /\ pc' = "panicked"
    /\ UNCHANGED <<dictionary, answer, i, history, result>>
    /\ UNCHANGED computeVars

\* An iteration whose guess is scored and pushed; after the last one the loop
\* ends and play returns None.
Score(w) ==
    /\ GuessCall(w)
    /\ Outcome(w, answer, dictionary) = "Scored"
    /\ history' = push(history, [word |-> w, mask |-> compute(answer, w)])
    /\ IF LastRound(i)
       THEN /\ pc' = "returned"
            /\ result' = None
            /\ i' = i
       ELSE /\ pc' = "running"
            /\ result' = result
            /\ i' = i + 1
    /\ UNCHANGED <<dictionary, answer>>
    /\ UNCHANGED computeVars

Next ==
    \/ \E a \in Answers : Play(a)
    \/ \E w \in GuessPool : Solve(w)
    \/ \E w \in GuessPool : Panic(w)
    \/ \E w \in GuessPool : Score(w)

Spec == Init /\ [][Next]_vars

-----------------------------------------------------------------------------
(* Properties of compute *)

Count(S) == Cardinality(S)

\* C1: for every position p, the outcome at p is Correct if and only if the
\* answer and the guess hold the same letter at p; so compute(A, A) is all
\* Correct.
CorrectIffExact ==
    ComputeReturned =>
        /\ \A p \in Positions : (cMask[p] = Correct) <=> (cAnswer[p] = cGuess[p])
        /\ (cAnswer = cGuess => cMask = [p \in Positions |-> Correct])

\* An exact match next to a position whose letter is in the answer elsewhere.
CorrectIffExactWitness ==
    /\ ComputeReturned
    /\ \E p, q, r \in Positions :
          /\ cAnswer[p] = cGuess[p]
          /\ cAnswer[q] # cGuess[q]
          /\ cAnswer[r] = cGuess[q]
          /\ cMask[p] = Correct
          /\ cMask[q] # Correct

\* The answer positions holding L that the guess does not match exactly.
Supply(L) == {j \in Positions : cAnswer[j] = L /\ cGuess[j] # L}

\* The guess positions holding L that are not exact matches.
Claimants(L) == {p \in Positions : cGuess[p] = L /\ cAnswer[p] # L}

\* C2: scarcity with left-to-right priority: for every letter L, of the guess
\* positions holding L that are not exact matches, exactly the first
\* min(m, their number) are Misplaced and the later ones are Wrong, where m is
\* the number of answer positions holding L that the guess does not match.
ScarcityLeftToRight ==
    ComputeReturned =>
        \A L \in Letters : \A p \in Claimants(L) :
            LET rank == Count({q \in Claimants(L) : q <= p})
            IN  cMask[p] = IF rank <= Count(Supply(L)) THEN Misplaced ELSE Wrong

\* A = "azzaz", G = "aaabb" (z written 2, b written 3): the second a takes the
\* one spare a of the answer, the third a finds none.
ScarcityWitness ==
    /\ cAnswer = <<1, 2, 2, 1, 2>>
    /\ cGuess = <<1, 1, 1, 3, 3>>
    /\ cMask = <<Correct, Misplaced, Wrong, Wrong, Wrong>>

\* The guess positions holding L that were credited (Correct or Misplaced).
Credited(L) == {p \in Positions : cGuess[p] = L /\ cMask[p] \in {Correct, Misplaced}}

Occurrences(L) == {j \in Positions : cAnswer[j] = L}

\* C3: letter supply: for every letter L the guess positions holding L with
\* outcome Correct or Misplaced are at most as many as the occurrences of L in
\* the answer; when answer and guess share no letter the mask is all Wrong.
LetterSupply ==
    ComputeReturned =>
        /\ \A L \in Letters : Count(Credited(L)) <= Count(Occurrences(L))
        /\ (\A p, q \in Positions : cAnswer[p] # cGuess[q])
              => cMask = [p \in Positions |-> Wrong]

\* The guess holds a letter more often than the answer and, one of them
\* being Misplaced, uses up the whole supply.
LetterSupplyWitness ==
    /\ ComputeReturned
    /\ \E L \in Letters :
          /\ Count({p \in Positions : cGuess[p] = L}) > Count(Occurrences(L))
          /\ Count(Credited(L)) = Count(Occurrences(L))
          /\ \E p \in Credited(L) : cMask[p] = Misplaced

\* The two-pass algorithm: pass 1 marks the exact matches and consumes their
\* answer positions.
TwoPassInit ==
    [c |-> [p \in Positions |-> IF cAnswer[p] = cGuess[p] THEN Correct ELSE Wrong],
     consumed |-> [p \in Positions |-> cAnswer[p] = cGuess[p]]]

\* Pass 2 at guess position p, scanning the answer from position j.
RECURSIVE TwoPassScan(_, _, _)
TwoPassScan(st, p, j) ==
    IF j > WordLen THEN st
    ELSE IF cAnswer[j] = cGuess[p] /\ cAnswer[j] # cGuess[j] /\ ~st.consumed[j]
    THEN [c |-> [st.c EXCEPT ![p] = Misplaced],
          consumed |-> [st.consumed EXCEPT ![j] = TRUE]]
    ELSE TwoPassScan(st, p, j + 1)

RECURSIVE TwoPassCross(_, _)
TwoPassCross(st, p) ==
    IF p > WordLen THEN st
    ELSE IF st.c[p] = Correct THEN TwoPassCross(st, p + 1)
    ELSE TwoPassCross(TwoPassScan(st, p, 1), p + 1)

TwoPass == TwoPassCross(TwoPassInit, 1).c

\* The answer position the single pass consumes for guess position p (0: none).
ConsumedBy(p) ==
    FindUnused(cAnswer, cGuess,
               ComputeLoop(cAnswer, cGuess, ComputeInit, 1, p - 1).used,
               cGuess[p], 1)

\* C9: the single pass returns the mask of the two-pass algorithm, and the
\* answer position consumed by a Misplaced guess position is never an exact
\* match.
SinglePassIsTwoPass ==
    ComputeReturned =>
        /\ cMask = TwoPass
        /\ \A p \in Positions :
              cMask[p] = Misplaced =>
                  /\ ConsumedBy(p) \in Positions
                  /\ cAnswer[ConsumedBy(p)] # cGuess[ConsumedBy(p)]

\* A Misplaced position whose letter is an exact match at a later position.
SinglePassWitness ==
    /\ ComputeReturned
    /\ \E p, q \in Positions :
          /\ p < q
          /\ cMask[p] = Misplaced
          /\ cGuess[q] = cGuess[p]
          /\ cAnswer[q] = cGuess[q]

-----------------------------------------------------------------------------
(* Properties of play *)

Calls == Len(guesses)

\* The guess of round k is in the dictionary and is not the answer.
ValidMiss(k) == guesses[k] # answer /\ guesses[k] \in dictionary

Exhausted == pc = "returned" /\ result = None

\* C4: when the guesses of rounds 1..k-1 are dictionary words other than the
\* answer and the guess of round k is the answer, play has returned Some(k)
\* and the history passed to the guesser on round k held k-1 records.
SolvedOnRoundK ==
    \A k \in 1..MAX_GUESSES :
        (/\ Calls >= k
         /\ guesses[k] = answer
         /\ \A m \in 1..(k - 1) : ValidMiss(m))
        => /\ Calls = k
           /\ pc = "returned"
           /\ result = [tag |-> "Some", val |-> k]
           /\ Len(passed) = k - 1

\* The answer comes on the last round, after MAX_GUESSES - 1 misses.
SolvedOnRoundKWitness ==
    /\ pc = "returned"
    /\ result = [tag |-> "Some", val |-> MAX_GUESSES]
    /\ Len(passed) = MAX_GUESSES - 1
    /\ Last(guesses) = answer

\* C5: the guesser is invoked at most MAX_GUESSES times, and play is over
\* once it has been invoked MAX_GUESSES times; when all MAX_GUESSES guesses
\* are dictionary words other than the answer play returns None, and it
\* returns None in no other case.
RoundBound ==
    /\ Calls <= MAX_GUESSES
    /\ Calls = MAX_GUESSES => pc \in {"returned", "panicked"}
    /\ (Calls = MAX_GUESSES /\ \A k \in 1..MAX_GUESSES : ValidMiss(k)) => Exhausted
    /\ Exhausted => (Calls = MAX_GUESSES /\ \A k \in 1..MAX_GUESSES : ValidMiss(k))

RoundBoundWitness ==
    /\ Exhausted
    /\ Calls = MAX_GUESSES
    /\ \A k \in 1..MAX_GUESSES : ValidMiss(k)

\* C6 as stated: when play is exhausted the history holds MAX_GUESSES - 1
\* records.
ExhaustedHistoryOneShort == Exhausted => Len(history) = MAX_GUESSES - 1

\* C6 as amended: when play is exhausted the history holds MAX_GUESSES
\* records, the last guess included; MAX_GUESSES - 1 is the length of the
\* history that was passed to the guesser on the last round.
ExhaustedHistoryFull ==
    Exhausted =>
        /\ Len(history) = MAX_GUESSES
        /\ history[MAX_GUESSES].word = guesses[MAX_GUESSES]
        /\ Len(passed) = MAX_GUESSES - 1

ExhaustedHistoryWitness ==
    /\ Exhausted
    /\ Len(history) = MAX_GUESSES
    /\ history[1].word # history[MAX_GUESSES].word

\* C7: a guess equal to the answer on round k ends play with Some(k), in the
\* dictionary or not; it is the last guess, and the history is the one that
\* was passed to the guesser, without a record of the winning guess.
EqualityShortCircuit ==
    \A k \in 1..Calls :
        guesses[k] = answer
        => /\ Calls = k
           /\ pc = "returned"
           /\ result = [tag |-> "Some", val |-> k]
           /\ history = passed
           /\ Len(history) = k - 1
           /\ \A n \in 1..Len(history) : history[n].word # answer

\* Won with an answer that is not in the dictionary, after a miss.
EqualityShortCircuitWitness ==
    /\ pc = "returned"
    /\ result.tag = "Some"
    /\ Last(guesses) = answer
    /\ answer \notin dictionary
    /\ Len(history) >= 1

\* C8: a guess that is neither the answer nor in the dictionary aborts play
\* in its round: it is the last guess, nothing is appended to the history,
\* and play returns nothing.
InvalidGuessFatal ==
    \A k \in 1..Calls :
        (guesses[k] # answer /\ guesses[k] \notin dictionary)
        => /\ Calls = k
           /\ pc = "panicked"
           /\ result = NotReturned
           /\ history = passed
           /\ Len(history) = k - 1

\* An invalid guess after a valid miss.
InvalidGuessFatalWitness ==
    /\ pc = "panicked"
    /\ Last(guesses) # answer
    /\ Last(guesses) \notin dictionary
    /\ Len(history) >= 1

\* The record play makes of the guess w.
RecordOf(w) == [word |-> w, mask |-> compute(answer, w)]

\* Every record is the guess of its round with its mask, a dictionary word
\* other than the answer.
HistoryFaithful ==
    /\ Len(history) <= Calls
    /\ \A k \in 1..Len(history) :
          /\ history[k] = RecordOf(guesses[k])
          /\ history[k].word # answer
          /\ history[k].word \in dictionary

\* A step leaves the history alone or appends the record of the new guess,
\* and what the guesser is passed on a later round is what it was passed on
\* the round before plus the record of that round's guess.
HistoryStep ==
    /\ \/ history' = history
       \/ /\ Calls' = Calls + 1
          /\ history' = Append(history, RecordOf(Last(guesses')))
    /\ (Calls >= 1 /\ Calls' = Calls + 1)
          => passed' = Append(passed, RecordOf(Last(guesses)))

\* C10: the history is append-only and faithful.
HistoryAppendOnly == [] HistoryFaithful /\ [][HistoryStep]_vars

\* A history of at least three records that holds two different words.
HistoryAppendOnlyWitness ==
    /\ pc = "running"
    /\ Len(history) >= 3
    /\ history[1].word # history[Len(history)].word
    /\ passed = SubSeq(history, 1, Len(history) - 1)

====
